---- MODULE Spec2Model ----
(***************************************************************************)
(* State-machine model of ab/gpt/finetune_deepseek.py: the fine-tuning     *)
(* driver main(), the generation driver                                    *)
(* generating_response_cycle_model_finetuned() and the files both keep     *)
(* under Finetuned_models/tuned_model_v<version>/.                         *)
(***************************************************************************)
EXTENDS Integers, Sequences, FiniteSets, TLC

VARIABLES stage, pc, err, args, m, g, disk, io, prev

vars == <<stage, pc, err, args, m, g, disk, io, prev>>

(***************************************************************************)
(* Bounds of the model.                                                    *)
(***************************************************************************)
\* epochs of trainer.train() that are explored
MaxEpochs == 3
\* fragments a decoded text is built from in the extraction specification
MaxChunks == 3
\* tokenizer.model_max_length of the modelled tokenizer
MaxModelLen == 4

(***************************************************************************)
(* Program constants.                                                      *)
(***************************************************************************)
num_train_epochs == 35
early_stopping_patience == 2
save_total_limit == 3
\* test_size = 0.2, in percent
test_size_percent == 20

(***************************************************************************)
(* Generic helpers.                                                        *)
(***************************************************************************)
Min(a, b) == IF a < b THEN a ELSE b

Range(s) == {s[i] : i \in 1..Len(s)}

Perms(n) == {p \in [1..n -> 1..n] : \A i, j \in 1..n : p[i] = p[j] => i = j}

Reverse(s) == [i \in 1..Len(s) |-> s[Len(s) + 1 - i]]

Take(s, k) == SubSeq(s, 1, Min(k, Len(s)))

(***************************************************************************)
(* The version table, identical in both drivers.  Version keys are written *)
(* as strings so that the fractional key 3.5 has a value.                  *)
(***************************************************************************)
hf_directories ==
    [k \in {"1", "2", "3", "3.5", "4", "5", "6", "7"} |->
        CASE k = "1" -> "deepseek-ai/DeepSeek-Coder-V2-Lite-Base"
          [] k \in {"2", "3", "3.5"} -> "deepseek-ai/deepseek-coder-1.3b-base"
          [] k = "4" -> "deepseek-ai/DeepSeek-R1-Distill-Qwen-7B"
          [] k = "5" -> "deepseek-ai/deepseek-coder-7b-base-v1.5"
          [] k = "6" -> "deepseek-ai/deepseek-math-7b-base"
          [] k = "7" -> "deepseek-ai/deepseek-coder-7b-instruct-v1.5"]

\* variant: the lookup result is never tested
Resolve_skip(version) == FALSE

\* hf_directories.get(version) is None
IsUnknownVersion(version) == version \notin DOMAIN hf_directories

\* version keys passed by callers: one of the table, one absent from it
Versions == {"1", "8"}

(***************************************************************************)
(* Files the drivers read.                                                 *)
(***************************************************************************)
DataPoint(q, a) == [question |-> q, answer |-> a]

\* contents of the raw dataset files; a path outside the domain is a missing file
RawDatasetFiles ==
    [p \in {"Dataset/LEMUR_prepared_2.json", "Dataset/other.json"} |->
        IF p = "Dataset/LEMUR_prepared_2.json"
        THEN <<DataPoint("q1", "a1"), DataPoint("q2", "a2"), DataPoint("q3", "a3")>>
        ELSE <<DataPoint("q4", "a4"), DataPoint("q5", "a5")>>]

DatasetPaths == DOMAIN RawDatasetFiles \cup {"Dataset/missing.json"}

(***************************************************************************)
(* Prompt rendering and tokenization (training side).                      *)
(***************************************************************************)
create_prompt(data_point) ==
    <<"### Input:", data_point.question, "### Response:", data_point.answer>>

\* the tokenizer's vocabulary: a word to its token id
Vocab(w) ==
    CASE w = "### Input:" -> 1
      [] w = "### Response:" -> 2
      [] w = "q1" -> 11 [] w = "q2" -> 12 [] w = "q3" -> 13 [] w = "q4" -> 14 [] w = "q5" -> 15
      [] w = "a1" -> 21 [] w = "a2" -> 22 [] w = "a3" -> 23 [] w = "a4" -> 24 [] w = "a5" -> 25
      [] OTHER -> 3

\* add_eos_token = True
EosTokenId == 99

tokenize(prompt) ==
    LET ids == [i \in 1..Len(prompt) |-> Vocab(prompt[i])] \o <<EosTokenId>>
        cut == Take(ids, MaxModelLen)
    IN  [input_ids |-> cut, attention_mask |-> [i \in 1..Len(cut) |-> 1]]

\* Dataset.map(lambda data_point: tokenize(create_prompt(data_point)))
MapTokenize(rows) ==
    [i \in 1..Len(rows) |->
        [question |-> rows[i].question, answer |-> rows[i].answer,
         input_ids |-> tokenize(create_prompt(rows[i])).input_ids,
         attention_mask |-> tokenize(create_prompt(rows[i])).attention_mask]]

(***************************************************************************)
(* Shuffle and split.                                                      *)
(***************************************************************************)
\* Dataset.shuffle(seed=42): one fixed permutation per dataset length
ShuffleSeed42(rows) == Reverse(rows)

NTest(n) == (test_size_percent * n + 99) \div 100

NTrain(n) == n - NTest(n)

\* Dataset.train_test_split(test_size=0.2) with the permutation its generator drew
train_test_split(rows, perm) ==
    LET n == Len(rows)
    IN  [test  |-> [i \in 1..NTest(n) |-> rows[perm[i]]],
         train |-> [i \in 1..NTrain(n) |-> rows[perm[NTest(n) + i]]]]

(***************************************************************************)
(* Values held in variables and on disk.                                   *)
(***************************************************************************)
None == [kind |-> "none"]

Dataset(rows) == [kind |-> "dataset", rows |-> rows]

Absent == [kind |-> "absent"]

Corrupt == [kind |-> "corrupt"]

\* Dataset.save_to_disk: the directory written for a dataset
save_to_disk(ds) == [kind |-> "arrow", rows |-> ds.rows, complete |-> TRUE]

Loadable(entry) == entry.kind = "arrow" /\ entry.complete

\* load_from_disk: the dataset read from a directory that loads
load_from_disk(entry) == Dataset(entry.rows)

\* variant: both collections share the train directory
CacheDir_train_only(version, name) == <<version, "tokenized_train_dataset">>

\* f"Finetuned_models/tuned_model_v{version}/{name}"
CacheDir(version, name) == <<version, name>>

CacheDirs == {CacheDir(v, n) : v \in Versions,
                               n \in {"tokenized_train_dataset", "tokenized_val_dataset"}}

MainLocals0 ==
    [tokenized_train_dataset |-> None, tokenized_val_dataset |-> None,
     shuffled_dataset |-> None, train_dataset |-> None, eval_dataset |-> None,
     route |-> "none", partial_load |-> FALSE, epoch |-> 0, patience |-> 0, stop |-> FALSE,
     trained |-> FALSE, eval_results |-> FALSE]

GenLocals0 == [data |-> <<>>, data_len |-> 0, i |-> 0, processed_data |-> <<>>,
               decoded |-> <<>>, response_text |-> <<>>, buffer |-> <<>>, log_open |-> FALSE, wrote |-> FALSE]

Args0 == [tuned_model_version |-> "1", dataset_path |-> "Dataset/LEMUR_prepared_2.json"]

\* the last completed dataset preparation and the last split that was drawn
Prev0 == [route |-> "none", version |-> "none", path |-> "none", train |-> None,
          val |-> None, second |-> FALSE, split |-> None]

Rest == {"idle", "done", "aborted"}

(***************************************************************************)
(* The fine-tuning driver main(tuned_model_version, dataset_path).         *)
(***************************************************************************)
\* variant: the two save_pretrained calls moved before trainer.train()
main_steps_save_first ==
    <<"m_tokenizer", "m_model", "m_cache", "m_setup", "m_save_model", "m_save_tokenizer",
      "m_train", "m_eval", "done">>

\* the statements of main in program order
main_steps ==
    <<"m_tokenizer", "m_model", "m_cache", "m_setup", "m_train", "m_eval",
      "m_save_model", "m_save_tokenizer", "done">>

After(step) ==
    LET i == CHOOSE j \in 1..Len(main_steps) : main_steps[j] = step
    IN  main_steps[i + 1]

Abort(e) == pc' = "aborted" /\ err' = e

\* lines 46-69: the call and the version lookup
MainStart(version, path) ==
    /\ stage = "finetune"
    /\ pc \in Rest
    /\ args' = [tuned_model_version |-> version, dataset_path |-> path]
    /\ m' = MainLocals0
    /\ io' = <<>>
    /\ IF IsUnknownVersion(version)
       THEN Abort("ValueError: Unknown model version")
       ELSE pc' = main_steps[1] /\ err' = "none"
    /\ UNCHANGED <<stage, g, disk, prev>>

\* lines 71-74: AutoTokenizer.from_pretrained
LoadTokenizer ==
    /\ pc = "m_tokenizer"
    /\ io' = Append(io, "tokenizer_load")
    /\ \/ pc' = After(pc) /\ err' = err
       \/ Abort("tokenizer load failed")
    /\ UNCHANGED <<stage, args, m, g, disk, prev>>

\* lines 81-93: AutoModelForCausalLM.from_pretrained under 8-bit quantization
LoadModel ==
    /\ pc = "m_model"
    /\ io' = Append(io, "model_load")
    /\ \/ pc' = After(pc) /\ err' = err
       \/ Abort("model load failed")
    /\ UNCHANGED <<stage, args, m, g, disk, prev>>

\* variant: a collection that did load is kept
FreshOrLoaded(loaded, fresh) == IF loaded = None THEN fresh ELSE loaded

\* line 111: the assignment replaces whatever the try block had loaded
Regenerated(loaded, fresh) == fresh

\* lines 96-103: try both load_from_disk calls; any exception selects regeneration
LoadCache ==
    /\ pc = "m_cache"
    /\ io' = Append(io, "cache_read")
    /\ LET v == args.tuned_model_version
           t == disk.cache[CacheDir(v, "tokenized_train_dataset")]
           e == disk.cache[CacheDir(v, "tokenized_val_dataset")]
       IN  IF Loadable(t) /\ Loadable(e)
           THEN /\ m' = [m EXCEPT !.tokenized_train_dataset = load_from_disk(t),
                                  !.tokenized_val_dataset = load_from_disk(e),
                                  !.route = "cache"]
                /\ prev' = [prev EXCEPT
                              !.route = "cache", !.version = v, !.path = args.dataset_path,
                              !.train = load_from_disk(t), !.val = load_from_disk(e),
                              !.second = /\ prev.route = "regen"
                                         /\ prev.version = v
                                         /\ prev.path = args.dataset_path]
                /\ pc' = After(pc)
           ELSE /\ m' = [m EXCEPT !.tokenized_train_dataset =
                                      IF Loadable(t) THEN load_from_disk(t) ELSE None,
                                  !.partial_load = Loadable(t),
                                  !.route = "regen"]
                /\ prev' = prev
                /\ pc' = "m_load_dataset"
    /\ UNCHANGED <<stage, err, args, g, disk>>

\* lines 104-105: load_dataset('json', data_files=dataset_path), shuffle(seed=42)
LoadDataset ==
    /\ pc = "m_load_dataset"
    /\ io' = Append(io, "dataset_read")
    /\ IF args.dataset_path \in DOMAIN RawDatasetFiles
       THEN /\ m' = [m EXCEPT !.shuffled_dataset =
                         Dataset(ShuffleSeed42(RawDatasetFiles[args.dataset_path]))]
            /\ pc' = "m_split"
            /\ err' = err
       ELSE /\ Abort("FileNotFoundError")
            /\ m' = m
    /\ UNCHANGED <<stage, args, g, disk, prev>>

\* lines 107-108: two calls of train_test_split, each drawing its own permutation
Split ==
    /\ pc = "m_split"
    /\ LET rows == m.shuffled_dataset.rows
           n == Len(rows)
       IN  IF NTrain(n) = 0 \/ NTest(n) = 0
           THEN Abort("ValueError: empty split") /\ m' = m
           ELSE \E p1, p2 \in Perms(n) :
                  /\ m' = [m EXCEPT
                             !.train_dataset = Dataset(train_test_split(rows, p1).train),
                             !.eval_dataset = Dataset(train_test_split(rows, p2).test)]
                  /\ pc' = "m_tokenize"
                  /\ err' = err
    /\ UNCHANGED <<stage, args, g, disk, io, prev>>

\* lines 110-114: map tokenize over both collections
TokenizeDatasets ==
    /\ pc = "m_tokenize"
    /\ m' = [m EXCEPT
               !.tokenized_train_dataset =
                   Regenerated(m.tokenized_train_dataset,
                               Dataset(MapTokenize(m.train_dataset.rows))),
               !.tokenized_val_dataset = Dataset(MapTokenize(m.eval_dataset.rows))]
    /\ prev' = [prev EXCEPT !.split = [kind |-> "split", path |-> args.dataset_path,
                                        train |-> m.train_dataset,
                                        eval |-> m.eval_dataset]]
    /\ pc' = "m_save_train"
    /\ UNCHANGED <<stage, err, args, g, disk, io>>

\* lines 116-117: save the train collection; a failed write leaves a broken directory
SaveTrain ==
    /\ pc = "m_save_train"
    /\ io' = Append(io, "cache_write")
    /\ LET dir == CacheDir(args.tuned_model_version, "tokenized_train_dataset")
       IN  \/ /\ disk' = [disk EXCEPT !.cache[dir] = save_to_disk(m.tokenized_train_dataset)]
              /\ pc' = "m_save_val"
              /\ err' = err
           \/ /\ disk' = [disk EXCEPT !.cache[dir] = Corrupt]
              /\ Abort("save_to_disk failed")
    /\ UNCHANGED <<stage, args, m, g, prev>>

\* lines 118-120: save the validation collection
SaveVal ==
    /\ pc = "m_save_val"
    /\ io' = Append(io, "cache_write")
    /\ LET dir == CacheDir(args.tuned_model_version, "tokenized_val_dataset")
       IN  \/ /\ disk' = [disk EXCEPT !.cache[dir] = save_to_disk(m.tokenized_val_dataset)]
              /\ prev' = [prev EXCEPT
                            !.route = "regen", !.version = args.tuned_model_version,
                            !.path = args.dataset_path,
                            !.train = m.tokenized_train_dataset,
                            !.val = m.tokenized_val_dataset, !.second = FALSE]
              /\ pc' = After("m_cache")
              /\ err' = err
           \/ /\ disk' = [disk EXCEPT !.cache[dir] = Corrupt]
              /\ prev' = prev
              /\ Abort("save_to_disk failed")
    /\ UNCHANGED <<stage, args, m, g>>

\* lines 122-179: model.train(), k-bit preparation, LoRA, TrainingArguments, Trainer
SetupTrainer ==
    /\ pc = "m_setup"
    /\ \/ pc' = After(pc) /\ err' = err
       \/ Abort("trainer setup failed")
    /\ UNCHANGED <<stage, args, m, g, disk, io, prev>>

\* checkpoints kept under output/ after one more is saved (save_total_limit)
Rotate(kept) == Min(kept + 1, save_total_limit)

\* line 182, one epoch: train, evaluate, save a checkpoint, early-stopping check
TrainEpoch ==
    /\ pc = "m_train"
    /\ ~m.stop
    /\ m.epoch < Min(num_train_epochs, MaxEpochs)
    /\ \E improved \in BOOLEAN :
         LET p == IF improved \/ m.epoch = 0 THEN 0 ELSE m.patience + 1
         IN  m' = [m EXCEPT !.epoch = m.epoch + 1, !.patience = p,
                            !.stop = (p >= early_stopping_patience)]
    /\ disk' = [disk EXCEPT !.output[args.tuned_model_version] = Rotate(@)]
    /\ io' = Append(io, "checkpoint_write")
    /\ UNCHANGED <<stage, pc, err, args, g, prev>>

\* line 182: the training loop raises (out of memory)
TrainFail ==
    /\ pc = "m_train"
    /\ ~m.stop
    /\ Abort("training failed")
    /\ UNCHANGED <<stage, args, m, g, disk, io, prev>>

\* line 182: trainer.train() returns, the best checkpoint is restored
TrainEnd ==
    /\ pc = "m_train"
    /\ m.stop \/ m.epoch = num_train_epochs
    /\ m' = [m EXCEPT !.trained = TRUE]
    /\ pc' = After(pc)
    /\ UNCHANGED <<stage, err, args, g, disk, io, prev>>

\* lines 194-195: trainer.evaluate()
Evaluate ==
    /\ pc = "m_eval"
    /\ \/ m' = [m EXCEPT !.eval_results = TRUE] /\ pc' = After(pc) /\ err' = err
       \/ m' = m /\ Abort("evaluation failed")
    /\ UNCHANGED <<stage, args, g, disk, io, prev>>

\* line 197: model.save_pretrained(".../model")
SaveModel ==
    /\ pc = "m_save_model"
    /\ disk' = [disk EXCEPT !.model[args.tuned_model_version] = TRUE]
    /\ io' = Append(io, "adapter_write")
    /\ pc' = After(pc)
    /\ UNCHANGED <<stage, err, args, m, g, prev>>

\* line 198: tokenizer.save_pretrained(".../tokenizer")
SaveTokenizer ==
    /\ pc = "m_save_tokenizer"
    /\ disk' = [disk EXCEPT !.tokenizer[args.tuned_model_version] = TRUE]
    /\ io' = Append(io, "tokenizer_write")
    /\ pc' = After(pc)
    /\ UNCHANGED <<stage, err, args, m, g, prev>>

(***************************************************************************)
(* Text handling of the generation driver.  A text is a sequence of        *)
(* one-character strings.                                                  *)
(***************************************************************************)
\* the literal "### Response:"
Marker == <<"#", "#", "#", " ", "R", "e", "s", "p", "o", "n", "s", "e", ":">>

\* characters str.strip() removes
Whitespace == {" ", "\n", "\t", "\r"}

OccursAt(s, sep, j) ==
    /\ j >= 1
    /\ j + Len(sep) - 1 <= Len(s)
    /\ SubSeq(s, j, j + Len(sep) - 1) = sep

\* str.find(sep, start): the first occurrence at or after start, 0 when there is none
Find(s, sep, start) ==
    LET hits == {j \in start..Len(s) : OccursAt(s, sep, j)}
    IN  IF hits = {} THEN 0 ELSE CHOOSE j \in hits : \A k \in hits : j <= k

RECURSIVE SplitFrom(_, _, _)
\* str.split(sep): left to right, occurrences do not overlap
SplitFrom(s, sep, start) ==
    LET j == Find(s, sep, start)
    IN  IF j = 0
        THEN <<SubSeq(s, start, Len(s))>>
        ELSE <<SubSeq(s, start, j - 1)>> \o SplitFrom(s, sep, j + Len(sep))

split(s, sep) == SplitFrom(s, sep, 1)

\* str.strip()
strip(s) ==
    LET keep == {i \in 1..Len(s) : s[i] \notin Whitespace}
    IN  IF keep = {} THEN <<>>
        ELSE SubSeq(s, CHOOSE i \in keep : \A k \in keep : i <= k,
                       CHOOSE i \in keep : \A k \in keep : i >= k)

\* variant: index [0]
FirstPiece(pieces) == pieces[1]

\* index [-1] of the split
LastPiece(pieces) == pieces[Len(pieces)]

\* line 264: response_text.split("### Response:")[-1].strip()
ExtractResponse(response_text) == strip(LastPiece(split(response_text, Marker)))

RECURSIVE Join(_, _)
\* sep.join(parts)
Join(parts, sep) ==
    IF Len(parts) = 0 THEN <<>>
    ELSE IF Len(parts) = 1 THEN parts[1]
    ELSE parts[1] \o sep \o Join(Tail(parts), sep)

\* lines 244-256: the prompt of one entry; the fixed sentences of the template
\* are shortened to their first letters, the section headers are literal
eval_prompt(entry) ==
    <<"\n", "#", "#", "#", " ", "I", "n", "p", "u", "t", ":", "\n">>
    \o <<"G", "(">> \o Join(entry.prm, <<",", " ">>) \o <<")", " ">>
    \o entry.metric \o <<" ">> \o entry.task \o <<" ">> \o entry.dataset \o <<" ">>
    \o entry.transform_code \o <<" ">> \o entry.accuracy \o <<" ">> \o entry.epoch
    \o <<"\n", " ">> \o entry.nn_code
    \o <<"\n", "\n">> \o Marker \o <<"\n", " ">>

Entry(prm, code) ==
    [prm |-> prm, metric |-> <<"m">>, task |-> <<"t">>, dataset |-> <<"d">>,
     transform_code |-> <<"T">>, accuracy |-> <<"9">>, epoch |-> <<"5">>,
     nn_code |-> code]

json_dump(value) == [kind |-> "json", indent |-> 4, value |-> value]

json_load(file) == file.value

\* contents of the input files; a path outside the domain is a missing file
InputFiles ==
    [p \in {"Dataset/LEMUR_raw_2_500.json"} |->
        [kind |-> "json", indent |-> 4,
         value |-> <<Entry(<<<<"l", "r">>>>, <<"A">>),
                     Entry(<<<<"l", "r">>, <<"b", "s">>>>, <<"B">>)>>]]

InputPaths == DOMAIN InputFiles \cup {"Dataset/missing.json"}

\* texts the model appends to the prompt
Continuations ==
    { <<"0", ".", "1", "\n">>,
      <<"x", " ">> \o Marker \o <<" ", "7">>,
      <<>> }

WithResponse(entry, response_text) ==
    [f \in DOMAIN entry \cup {"Response"} |->
        IF f = "Response" THEN response_text ELSE entry[f]]

\* lines 267-269: the three writes of one record
LogBlock(i, prompt, response_text) ==
    [header |-> <<"Model #", i + 1>>, prompt |-> prompt, response |-> response_text]

\* variant: the file is left without being closed
CloseKeepsBuffer(file, buffer) == file

\* leaving the with block: the file object is closed, its buffer reaches the file
CloseLog(file, buffer) == file \o buffer

\* variant: entries with an empty response are skipped
AppendUnlessEmpty(processed_data, entry) ==
    IF entry.Response = <<>> THEN processed_data ELSE Append(processed_data, entry)

\* line 273
Accumulate(processed_data, entry) == Append(processed_data, entry)

(***************************************************************************)
(* The generation driver generating_response_cycle_model_finetuned.        *)
(***************************************************************************)
gen_steps == <<"g_model", "g_tokenizer", "g_adapter", "g_input", "g_log", "g_loop",
               "g_write", "done">>

GenAfter(step) ==
    LET i == CHOOSE j \in 1..Len(gen_steps) : gen_steps[j] = step
    IN  gen_steps[i + 1]

\* lines 205-220: the call and the version lookup
GenStart(version, input_file_path) ==
    /\ stage = "generate"
    /\ pc \in Rest
    /\ args' = [tuned_model_version |-> version, input_file_path |-> input_file_path]
    /\ g' = GenLocals0
    /\ io' = <<>>
    /\ IF IsUnknownVersion(version)
       THEN Abort("ValueError: Unknown model version")
       ELSE pc' = gen_steps[1] /\ err' = "none"
    /\ UNCHANGED <<stage, m, disk, prev>>

\* lines 222-229
GenLoadModel ==
    /\ pc = "g_model"
    /\ io' = Append(io, "model_load")
    /\ \/ pc' = GenAfter(pc) /\ err' = err
       \/ Abort("model load failed")
    /\ UNCHANGED <<stage, args, m, g, disk, prev>>

\* line 230
GenLoadTokenizer ==
    /\ pc = "g_tokenizer"
    /\ io' = Append(io, "tokenizer_load")
    /\ \/ pc' = GenAfter(pc) /\ err' = err
       \/ Abort("tokenizer load failed")
    /\ UNCHANGED <<stage, args, m, g, disk, prev>>

\* lines 231-232: PeftModel.from_pretrained on the saved adapter directory
GenLoadAdapter ==
    /\ pc = "g_adapter"
    /\ io' = Append(io, "adapter_load")
    /\ IF disk.model[args.tuned_model_version]
       THEN pc' = GenAfter(pc) /\ err' = err
       ELSE Abort("adapter directory missing")
    /\ UNCHANGED <<stage, args, m, g, disk, prev>>

\* lines 234-240: json.load, len, random.shuffle (no seed)
GenReadInput ==
    /\ pc = "g_input"
    /\ io' = Append(io, "input_read")
    /\ IF args.input_file_path \in DOMAIN InputFiles
       THEN LET data == json_load(InputFiles[args.input_file_path])
            IN  \E p \in Perms(Len(data)) :
                  /\ g' = [g EXCEPT !.data = [k \in 1..Len(data) |-> data[p[k]]],
                                    !.data_len = Len(data), !.i = 0,
                                    !.processed_data = <<>>]
                  /\ pc' = GenAfter(pc)
                  /\ err' = err
       ELSE Abort("FileNotFoundError") /\ g' = g
    /\ UNCHANGED <<stage, args, m, disk, prev>>

\* line 242: open(logs_file, "w") truncates the file
GenOpenLog ==
    /\ pc = "g_log"
    /\ io' = Append(io, "log_open")
    /\ disk' = [disk EXCEPT !.log = <<>>]
    /\ g' = [g EXCEPT !.log_open = TRUE, !.buffer = <<>>]
    /\ pc' = GenAfter(pc)
    /\ UNCHANGED <<stage, err, args, m, prev>>

\* lines 243-275, one iteration that completes; the file object may write any
\* prefix of its buffer through at any write
GenRecord ==
    /\ pc = "g_loop"
    /\ g.i < g.data_len
    /\ \E c \in Continuations :
         LET entry == g.data[g.i + 1]
             prompt == eval_prompt(entry)
             decoded == prompt \o c
             response_text == ExtractResponse(decoded)
             done == WithResponse(entry, response_text)
             buf == Append(g.buffer, LogBlock(g.i, prompt, response_text))
         IN  \E k \in 0..Len(buf) :
               /\ disk' = [disk EXCEPT !.log = @ \o SubSeq(buf, 1, k)]
               /\ g' = [g EXCEPT !.buffer = SubSeq(buf, k + 1, Len(buf)),
                                 !.data[g.i + 1] = done,
                                 !.decoded = Append(@, decoded),
                                 !.response_text = response_text,
                                 !.processed_data = Accumulate(@, done),
                                 !.i = g.i + 1]
    /\ UNCHANGED <<stage, pc, err, args, m, io, prev>>

\* lines 258-262 raise for the next record: the with block closes the log file
\* and the exception leaves the function
GenRecordFail ==
    /\ pc = "g_loop"
    /\ g.i < g.data_len
    /\ disk' = [disk EXCEPT !.log = CloseLog(@, g.buffer)]
    /\ g' = [g EXCEPT !.buffer = <<>>, !.log_open = FALSE]
    /\ Abort("generation failed")
    /\ UNCHANGED <<stage, args, m, io, prev>>

\* lines 275-277: the loop ends, the with block closes the log file
GenCloseLog ==
    /\ pc = "g_loop"
    /\ g.i = g.data_len
    /\ disk' = [disk EXCEPT !.log = CloseLog(@, g.buffer)]
    /\ g' = [g EXCEPT !.buffer = <<>>, !.log_open = FALSE]
    /\ pc' = GenAfter(pc)
    /\ UNCHANGED <<stage, err, args, m, io, prev>>

\* lines 279-282: json.dump(processed_data) in one write
GenWriteOutput ==
    /\ pc = "g_write"
    /\ io' = Append(io, "output_write")
    /\ disk' = [disk EXCEPT !.out = json_dump(g.processed_data)]
    /\ g' = [g EXCEPT !.wrote = TRUE]
    /\ pc' = GenAfter(pc)
    /\ UNCHANGED <<stage, err, args, m, prev>>

(***************************************************************************)
(* Initial states and specifications.                                      *)
(***************************************************************************)
Disk0 ==
    [cache |-> [d \in CacheDirs |-> Absent],
     output |-> [v \in Versions |-> 0],
     model |-> [v \in Versions |-> FALSE],
     tokenizer |-> [v \in Versions |-> FALSE],
     log |-> Absent,
     out |-> Absent]

\* the disk after one complete run of main("1", "Dataset/LEMUR_prepared_2.json")
TrainedDisk ==
    LET rows == ShuffleSeed42(RawDatasetFiles["Dataset/LEMUR_prepared_2.json"])
        id == [i \in 1..Len(rows) |-> i]
        train == Dataset(MapTokenize(train_test_split(rows, id).train))
        val == Dataset(MapTokenize(train_test_split(rows, id).test))
    IN  [Disk0 EXCEPT
           !.cache[CacheDir("1", "tokenized_train_dataset")] = save_to_disk(train),
           !.cache[CacheDir("1", "tokenized_val_dataset")] = save_to_disk(val),
           !.output["1"] = save_total_limit,
           !.model["1"] = TRUE,
           !.tokenizer["1"] = TRUE]

\* The __main__ block runs one stage, the other is commented out (lines
\* 311-326); the disk is empty or as a complete fine-tuning run leaves it.
Init ==
    /\ stage \in {"finetune", "generate"}
    /\ pc = "idle"
    /\ err = "none"
    /\ args = Args0
    /\ m = MainLocals0
    /\ g = GenLocals0
    /\ disk \in {Disk0, TrainedDisk}
    /\ io = <<>>
    /\ prev = Prev0

Next ==
    \/ \E v \in Versions, p \in DatasetPaths : MainStart(v, p)
    \/ LoadTokenizer
    \/ LoadModel
    \/ LoadCache
    \/ LoadDataset
    \/ Split
    \/ TokenizeDatasets
    \/ SaveTrain
    \/ SaveVal
    \/ SetupTrainer
    \/ TrainEpoch
    \/ TrainFail
    \/ TrainEnd
    \/ Evaluate
    \/ SaveModel
    \/ SaveTokenizer
    \/ \E v \in Versions, p \in InputPaths : GenStart(v, p)
    \/ GenLoadModel
    \/ GenLoadTokenizer
    \/ GenLoadAdapter
    \/ GenReadInput
    \/ GenOpenLog
    \/ GenRecord
    \/ GenRecordFail
    \/ GenCloseLog
    \/ GenWriteOutput

Spec == Init /\ [][Next]_vars

(***************************************************************************)
(* The extraction of line 264 on its own, over bounded decoded texts.      *)
(***************************************************************************)
Fragments ==
    { Marker, <<"#", "#", "#">>, <<" ", "R", "e", "s", "p", "o", "n", "s", "e", ":">>,
      <<"#">>, <<" ">>, <<"\n">>, <<"x">> }

RECURSIVE TextsOf(_)
\* the texts made of at most k fragments
TextsOf(k) ==
    IF k = 0 THEN {<<>>}
    ELSE LET shorter == TextsOf(k - 1)
         IN  shorter \cup {t \o f : t \in shorter, f \in Fragments}

DecodedTexts == TextsOf(MaxChunks)

\* line 262: response_text holds the decoded output
InitExtract ==
    /\ stage = "extract"
    /\ pc = "idle"
    /\ err = "none"
    /\ args = Args0
    /\ m = MainLocals0
    /\ \E t \in DecodedTexts :
         g = [GenLocals0 EXCEPT !.decoded = <<t>>, !.response_text = t]
    /\ disk = Disk0
    /\ io = <<>>
    /\ prev = Prev0

\* line 264
Extract ==
    /\ stage = "extract"
    /\ pc = "idle"
    /\ g' = [g EXCEPT !.response_text = ExtractResponse(@)]
    /\ pc' = "done"
    /\ UNCHANGED <<stage, err, args, m, disk, io, prev>>

NextExtract == Extract

SpecExtract == InitExtract /\ [][NextExtract]_vars

(***************************************************************************)
(* Properties.                                                             *)
(***************************************************************************)
UnknownVersionError == "ValueError: Unknown model version"

\* C1: a call of either driver with a version key absent from the table ends
\* in the unknown-version error as its first step: no load, read, open or
\* write has been attempted and the disk is unchanged; no later statement of
\* a driver ever runs under such a key.
C1_UnknownVersionFailsBeforeLoading ==
    [][ /\ (pc \in Rest /\ args'.tuned_model_version \notin DOMAIN hf_directories)
           => /\ pc' = "aborted"
              /\ err' = UnknownVersionError
              /\ io' = <<>>
              /\ disk' = disk
        /\ (pc' \notin Rest) => args'.tuned_model_version \in DOMAIN hf_directories
      ]_vars

C1_Witness ==
    /\ pc = "aborted"
    /\ err = UnknownVersionError
    /\ args.tuned_model_version = "8"
    /\ io = <<>>

\* C2: two runs of the regeneration path on the same raw dataset draw the
\* same train collection and the same validation collection.
C2_SplitIdenticalAcrossRuns ==
    (pc = "m_tokenize" /\ prev.split # None /\ prev.split.path = args.dataset_path)
        => /\ m.train_dataset = prev.split.train
           /\ m.eval_dataset = prev.split.eval

\* C3: after the split the train and validation collections partition the
\* shuffled dataset, with sizes 80% and 20% of it up to integer rounding.
C3_SplitIsPartition ==
    pc = "m_tokenize"
        => LET all == m.shuffled_dataset.rows
               tr == m.train_dataset.rows
               ev == m.eval_dataset.rows
               n == Len(all)
           IN  /\ Range(tr) \cap Range(ev) = {}
               /\ Range(tr) \cup Range(ev) = Range(all)
               /\ 5 * Len(tr) \in (4 * n - 4)..(4 * n + 4)
               /\ 5 * Len(ev) \in (n - 4)..(n + 4)
               /\ Len(tr) + Len(ev) = n

WithoutResponse(entry) == [f \in DOMAIN entry \ {"Response"} |-> entry[f]]

\* C4: when the generation driver has written the output file, the file holds
\* one record per input record, in processing order, none dropped or
\* duplicated, each with a Response field holding the response extracted
\* from the text decoded for that record.
C4_OutputOneRecordPerInput ==
    (pc = "done" /\ g.wrote)
        => LET out == json_load(disk.out)
               input == json_load(InputFiles[args.input_file_path])
           IN  /\ Len(out) = Len(input)
               /\ Len(out) = g.data_len
               /\ \E p \in Perms(Len(input)) :
                     \A k \in 1..Len(input) : WithoutResponse(out[k]) = input[p[k]]
               /\ \A k \in 1..Len(out) :
                     /\ WithoutResponse(out[k]) = WithoutResponse(g.data[k])
                     /\ "Response" \in DOMAIN out[k]
                     /\ SubSeq(g.decoded[k], 1, Len(eval_prompt(out[k])))
                            = eval_prompt(out[k])
                     /\ out[k].Response = ExtractResponse(g.decoded[k])

C4_Witness ==
    /\ pc = "done"
    /\ g.wrote
    /\ Len(json_load(disk.out)) = 2
    /\ json_load(disk.out)[1].Response # json_load(disk.out)[2].Response

\* C5: when generation raises at the k-th record the run is over, the log
\* file holds exactly the blocks of records 1..k-1 with ordinals 1..k-1 in
\* processing order, and the run has not written the output file.
C5_AbortKeepsLogPrefix ==
    (pc = "aborted" /\ err = "generation failed")
        => LET k == g.i + 1
           IN  /\ k \in 1..g.data_len
               /\ disk.log = [j \in 1..(k - 1) |->
                                 [header |-> <<"Model #", j>>,
                                  prompt |-> eval_prompt(g.data[j]),
                                  response |-> ExtractResponse(g.decoded[j])]]
               /\ ~g.wrote
               /\ "output_write" \notin Range(io)

C5_Witness ==
    /\ pc = "aborted"
    /\ err = "generation failed"
    /\ g.i = 1
    /\ Len(disk.log) = 1

\* C6: a preparation that follows a regeneration which saved both
\* collections, with the same version key and dataset path, loads from the
\* cache, returns the collections the regeneration computed, leaves the disk
\* alone and reads no raw dataset.
C6_CacheIdempotent ==
    [][ /\ (/\ pc = "m_cache"
            /\ prev.route = "regen"
            /\ prev.version = args.tuned_model_version
            /\ prev.path = args.dataset_path)
           => /\ m'.route = "cache"
              /\ pc' = "m_setup"
              /\ m'.tokenized_train_dataset = prev.train
              /\ m'.tokenized_val_dataset = prev.val
              /\ disk' = disk
        /\ m'.route = "cache"
           => /\ "dataset_read" \notin Range(io')
              /\ "cache_write" \notin Range(io')
      ]_vars

C6_Witness ==
    /\ pc = "m_setup"
    /\ m.route = "cache"
    /\ prev.second
    /\ m.tokenized_train_dataset = prev.train

\* what a preparer without a cache can return for a dataset path
CachelessResults(path) ==
    IF path \notin DOMAIN RawDatasetFiles THEN {}
    ELSE LET rows == ShuffleSeed42(RawDatasetFiles[path])
         IN  {<<Dataset(MapTokenize(train_test_split(rows, p1).train)),
                Dataset(MapTokenize(train_test_split(rows, p2).test))>> :
                  p1, p2 \in Perms(Len(rows))}

\* C7: the collections a preparation returns are collections a preparer
\* without a cache computes from the dataset at the path it was given.
C7_CacheIsTransparent ==
    (pc = "m_setup")
        => <<m.tokenized_train_dataset, m.tokenized_val_dataset>>
               \in CachelessResults(args.dataset_path)

\* C8: the extracted response is the text after the last occurrence of the
\* marker (the whole text when there is none), without the whitespace around
\* it, and the marker does not occur in it.
C8_ResponseAfterLastMarker ==
    (stage = "extract" /\ pc = "done")
        => LET t == g.decoded[1]
               r == g.response_text
               hits == {j \in 1..Len(t) : OccursAt(t, Marker, j)}
               last == CHOOSE j \in hits : \A k \in hits : k <= j
               rest == IF hits = {} THEN t ELSE SubSeq(t, last + Len(Marker), Len(t))
           IN  /\ \A j \in 1..Len(r) : ~OccursAt(r, Marker, j)
               /\ \E a \in 0..Len(rest) :
                     /\ a + Len(r) <= Len(rest)
                     /\ SubSeq(rest, a + 1, a + Len(r)) = r
                     /\ \A j \in 1..a : rest[j] \in Whitespace
                     /\ \A j \in (a + Len(r) + 1)..Len(rest) : rest[j] \in Whitespace
               /\ r # <<>> => (r[1] \notin Whitespace /\ r[Len(r)] \notin Whitespace)

C8_Witness ==
    /\ stage = "extract"
    /\ pc = "done"
    /\ Cardinality({j \in 1..Len(g.decoded[1]) : OccursAt(g.decoded[1], Marker, j)}) = 2
    /\ g.response_text = <<"x">>

\* C9: when a cached collection failed to load, the run did not stop at the
\* load, and once the preparation is over both collections are the ones
\* tokenized from this run's split of the raw dataset and both cache
\* directories hold them.
C9_LoadFailureRegeneratesBoth ==
    /\ (m.route = "regen" /\ pc = "aborted") => io[Len(io)] # "cache_read"
    /\ (m.route = "regen" /\ pc \in {"m_setup", "m_train", "m_eval", "m_save_model",
                                     "m_save_tokenizer", "done"})
          => LET v == args.tuned_model_version
                 raw == RawDatasetFiles[args.dataset_path]
             IN  /\ Range(m.train_dataset.rows) \subseteq Range(raw)
                 /\ Range(m.eval_dataset.rows) \subseteq Range(raw)
                 /\ m.tokenized_train_dataset = Dataset(MapTokenize(m.train_dataset.rows))
                 /\ m.tokenized_val_dataset = Dataset(MapTokenize(m.eval_dataset.rows))
                 /\ disk.cache[<<v, "tokenized_train_dataset">>]
                        = save_to_disk(m.tokenized_train_dataset)
                 /\ disk.cache[<<v, "tokenized_val_dataset">>]
                        = save_to_disk(m.tokenized_val_dataset)
    /\ (m.route = "cache" /\ pc # "m_cache")
          => /\ Loadable(disk.cache[<<args.tuned_model_version, "tokenized_train_dataset">>])
             /\ Loadable(disk.cache[<<args.tuned_model_version, "tokenized_val_dataset">>])

C9_Witness ==
    /\ pc = "m_train"
    /\ m.route = "regen"
    /\ m.partial_load

\* C10 as stated: a run of main that aborts has persisted no adapter weights
\* and no tokenizer under the version's directories.
C10_AbortPersistsNoAdapter ==
    (stage = "finetune" /\ pc = "aborted")
        => /\ "checkpoint_write" \notin Range(io)
           /\ "adapter_write" \notin Range(io)
           /\ "tokenizer_write" \notin Range(io)

Index(s, x) == CHOOSE i \in 1..Len(s) : s[i] = x

\* C10 amended: main runs its steps in the order tokenizer, model, datasets,
\* train, evaluate, save; the model/ and tokenizer/ directories are written
\* only after training and the final evaluation completed, so a run that
\* aborts has written neither; the epoch checkpoints under output/ are
\* written by the training loop itself.
C10_FinalSaveAfterTrainAndEvaluate ==
    stage = "finetune"
        => /\ "adapter_write" \in Range(io) => (m.trained /\ m.eval_results)
           /\ "tokenizer_write" \in Range(io) => "adapter_write" \in Range(io)
           /\ m.eval_results => m.trained
           /\ "checkpoint_write" \in Range(io) => m.route # "none"
           /\ m.trained => "checkpoint_write" \in Range(io)
           /\ m.route # "none" => Take(io, 3) = <<"tokenizer_load", "model_load", "cache_read">>
           /\ \A i \in 1..Len(io) :
                 io[i] = "checkpoint_write" => i < Index(io \o <<"adapter_write">>, "adapter_write")
           /\ pc = "aborted"
                 => ("adapter_write" \notin Range(io) /\ "tokenizer_write" \notin Range(io))
           /\ pc = "done" => ("adapter_write" \in Range(io) /\ "tokenizer_write" \in Range(io))

C10_Witness ==
    /\ stage = "finetune"
    /\ pc = "done"
    /\ disk.model[args.tuned_model_version]
    /\ disk.tokenizer[args.tuned_model_version]
    /\ io[Len(io)] = "tokenizer_write"
====
